---------------------------- MODULE Spec2Model ----------------------------
(***************************************************************************)
(* Model of the Aranet4 viewer (src/src/main.rs): a single-window program  *)
(* that loads sensor records from a sonnerie store and draws five linked   *)
(* line charts.                                                            *)
(*                                                                         *)
(* Program state: the control position of main (pc), the records list of   *)
(* LinkedAxesDemo, and what the five plots drew in the current frame.      *)
(* Environment state: the backing store, which another process may extend  *)
(* at any time, and the plot bounds egui_plot keeps per chart.             *)
(*                                                                         *)
(* Numbers: an f64 millisecond value of a record is kept exactly as the    *)
(* pair (whole milliseconds, remaining nanoseconds).  Plot x-bounds are    *)
(* kept in units of 10^11 ms, the granularity at which the range of        *)
(* jiff::Timestamp is expressed below.                                     *)
(***************************************************************************)
EXTENDS Integers, Sequences, FiniteSets

VARIABLES
    pc,        \* position of main: "start", "idle" (between two frames),
               \* the name of the chart about to be drawn, "end" (the
               \* frame's closure is returning), or "panicked"
    store,     \* rows of ../aranet2sonnerie/measurements.son, in store order
    records,   \* LinkedAxesDemo.records
    plots,     \* what each plot_* call of the current frame handed to egui_plot
    xr,        \* x-bounds egui_plot holds for each chart
    yr,        \* y-bounds egui_plot holds for each chart
    clicked,   \* whether the Refresh button was clicked in the current frame
    pointer,   \* whether a chart of the current frame already got the pointer
    cause,     \* why the program panicked ("none" while it runs)
    opens,     \* DatabaseReader::new calls made at startup or in the
               \* current frame
    lastOpen,  \* result of the last DatabaseReader::new: "none", "ok", "failed"
    lastRead,  \* rows the reader returned in the last successful refresh
    refreshed  \* whether some refresh has returned Ok

vars == <<pc, store, records, plots, xr, yr, clicked, pointer, cause, opens,
          lastOpen, lastRead, refreshed>>

---------------------------------------------------------------------------
(* Bounds of the model *)

\* The external writer appends at most this many rows to the store.
MaxRows == 3

---------------------------------------------------------------------------
(* Constants of the program *)

PLOT_WIDTH == 450
PLOT_HEIGHT == 120
PLOT_LINK_AXIS_NAME == "linked"

\* The divisor of Record::timestamp_millis and the factor of the formatters.
NanosPerMilli == 1000000

\* jiff::Timestamp::from_nanosecond accepts -377705023201 s ..= 253402207200 s;
\* in units of 10^11 ms that is TimestampMin..TimestampMax.
TimestampMin == -3777
TimestampMax == 2534

\* Results: a value, an Err, or a panic that unwinds out of main.
Ok(v) == [tag |-> "Ok", val |-> v]
Err == [tag |-> "Err"]
Panic == [tag |-> "Panic"]

\* Option: None or Some(v).
None == <<>>
Some(v) == <<v>>

\* A chart the current frame has not drawn yet.
NoPlot == [drawn |-> FALSE]

---------------------------------------------------------------------------
(* The store: sonnerie rows *)

\* A well-formed aranet4 payload, format "ffuuu"; n varies the values.
GoodValues(n) ==
    << [ty |-> "f32", v |-> 20 + n], [ty |-> "f32", v |-> 1000 + n],
       [ty |-> "u32", v |-> 400 + n], [ty |-> "u32", v |-> 40 + n],
       [ty |-> "u32", v |-> 90 + n] >>

\* A payload whose third column was written as a float, format "fffuu".
BadValues(n) ==
    << [ty |-> "f32", v |-> 20 + n], [ty |-> "f32", v |-> 1000 + n],
       [ty |-> "f32", v |-> 400 + n], [ty |-> "u32", v |-> 40 + n],
       [ty |-> "u32", v |-> 90 + n] >>

RowKinds == {"good", "bad_type", "other_key"}

\* The n-th row of the store, of the given kind. Timestamps grow with n and
\* are not whole milliseconds.
MakeRow(kind, n) ==
    [ key |-> IF kind = "other_key" THEN "other" ELSE "aranet4",
      timestamp_nanos |-> n * 1500000 + 7,
      values |-> IF kind = "bad_type" THEN BadValues(n) ELSE GoodValues(n) ]

\* sonnerie::Record::get_checked::<T>(idx): None unless column idx holds a T.
GetChecked(row, ty, idx) ==
    IF idx + 1 <= Len(row.values) /\ row.values[idx + 1].ty = ty
    THEN Some(row.values[idx + 1].v)
    ELSE None

\* DatabaseReader::get(key): the rows of that key, in store order.
RECURSIVE Get(_, _)
Get(st, key) ==
    IF st = <<>> THEN <<>>
    ELSE IF Head(st).key = key THEN <<Head(st)>> \o Get(Tail(st), key)
         ELSE Get(Tail(st), key)


---------------------------------------------------------------------------
(* Record and its conversion *)

\* A variant of try_from that reports a malformed row as an Err
\* (get_checked(..).ok_or(..)?) instead of unwrapping.
TryFromErr(value) ==
    LET celsius   == GetChecked(value, "f32", 0)
        pressure  == GetChecked(value, "f32", 1)
        co2_level == GetChecked(value, "u32", 2)
        humidity  == GetChecked(value, "u32", 3)
        battery   == GetChecked(value, "u32", 4)
    IN  IF None \in {celsius, pressure, co2_level, humidity, battery}
        THEN Err
        ELSE Ok([ timestamp_nanos |-> value.timestamp_nanos,
                  celsius |-> celsius[1], pressure |-> pressure[1],
                  co2_level |-> co2_level[1], humidity |-> humidity[1],
                  battery |-> battery[1] ])

\* impl TryFrom<sonnerie::Record> for Record: five unwrapped field reads.
\* The result is always Ok(record) or a panic, never Err.
TryFrom(value) ==
    LET celsius   == GetChecked(value, "f32", 0)
        pressure  == GetChecked(value, "f32", 1)
        co2_level == GetChecked(value, "u32", 2)
        humidity  == GetChecked(value, "u32", 3)
        battery   == GetChecked(value, "u32", 4)
    IN  IF None \in {celsius, pressure, co2_level, humidity, battery}
        THEN Panic
        ELSE Ok([ timestamp_nanos |-> value.timestamp_nanos,
                  celsius |-> celsius[1], pressure |-> pressure[1],
                  co2_level |-> co2_level[1], humidity |-> humidity[1],
                  battery |-> battery[1] ])

\* A variant of timestamp_millis that divides by 1_000 (microseconds).
TimestampMillisByThousand(record) ==
    [ whole |-> record.timestamp_nanos \div 1000,
      frac  |-> record.timestamp_nanos % 1000 ]

\* Record::timestamp_millis: timestamp_nanos as f64 / 1_000_000.0, kept as
\* whole milliseconds plus the remaining nanoseconds.
TimestampMillis(record) ==
    [ whole |-> record.timestamp_nanos \div NanosPerMilli,
      frac  |-> record.timestamp_nanos % NanosPerMilli ]

\* A variant of the collection that skips the rows that do not convert
\* (filter_map) instead of failing on the first.
RECURSIVE CollectSkips(_)
CollectSkips(rows) ==
    IF rows = <<>> THEN Ok(<<>>)
    ELSE LET r == TryFrom(Head(rows))
             rest == CollectSkips(Tail(rows))
         IN  IF r.tag # "Ok" THEN rest ELSE Ok(<<r.val>> \o rest.val)

\* reader.into_iter().map(Record::try_from).collect::<io::Result<_>>():
\* rows are converted front to back; a panic unwinds at once and the first
\* Err ends the collection with that Err.
RECURSIVE Collect(_)
Collect(rows) ==
    IF rows = <<>> THEN Ok(<<>>)
    ELSE LET r == TryFrom(Head(rows))
         IN  IF r.tag # "Ok" THEN r
             ELSE LET rest == Collect(Tail(rows))
                  IN  IF rest.tag # "Ok" THEN rest
                      ELSE Ok(<<r.val>> \o rest.val)

\* A variant of refresh that extends the list (self.records.extend(...))
\* instead of assigning it.
RefreshAppends(self, st, openOk) ==
    IF ~openOk
    THEN [outcome |-> "err", records |-> self, opens |-> 1, read |-> <<>>]
    ELSE LET rows == Get(st, "aranet4")
             got  == Collect(rows)
         IN  IF got.tag = "Panic"
             THEN [outcome |-> "panic", records |-> self, opens |-> 1,
                   read |-> <<>>]
             ELSE IF got.tag = "Err"
             THEN [outcome |-> "err", records |-> self, opens |-> 1,
                   read |-> <<>>]
             ELSE [outcome |-> "ok", records |-> self \o got.val,
                   opens |-> 1, read |-> rows]

\* LinkedAxesDemo::refresh on records list `self`, with the store holding
\* `st` and DatabaseReader::new succeeding or not. The assignment to
\* self.records is the last thing that happens, after `?` and the unwraps.
Refresh(self, st, openOk) ==
    IF ~openOk
    THEN [outcome |-> "err", records |-> self, opens |-> 1, read |-> <<>>]
    ELSE LET rows == Get(st, "aranet4")
             got  == Collect(rows)
         IN  IF got.tag = "Panic"
             THEN [outcome |-> "panic", records |-> self, opens |-> 1,
                   read |-> <<>>]
             ELSE IF got.tag = "Err"
             THEN [outcome |-> "err", records |-> self, opens |-> 1,
                   read |-> <<>>]
             ELSE [outcome |-> "ok", records |-> got.val, opens |-> 1,
                   read |-> rows]

---------------------------------------------------------------------------
(* The plots *)

\* A variant of ui that draws the pressure chart first.
UiOrderPressureFirst ==
    <<"pressure", "temperature", "co2", "humidity", "battery">>

\* The order of the plot_* calls in LinkedAxesDemo::ui.
UiOrder == <<"temperature", "pressure", "co2", "humidity", "battery">>

Charts == {UiOrder[i] : i \in 1..Len(UiOrder)}

IndexOf(c) == CHOOSE i \in 1..Len(UiOrder) : UiOrder[i] = c

\* Where main is after the plot_* call of chart c returns.
After(c) ==
    IF IndexOf(c) = Len(UiOrder) THEN "end" ELSE UiOrder[IndexOf(c) + 1]

\* Plot x-bounds a user can pan or zoom to, in units of 10^11 ms: a date in
\* 2023, the last representable timestamp, and one step beyond either end.
XViews == {17, TimestampMax, TimestampMax + 1, TimestampMin - 1}

\* Plot y-bounds: the automatic fit and a zoomed one.
YViews == {0, 1}

\* jiff::Timestamp::from_nanosecond((x * 1_000_000.0) as i128): Err outside
\* the representable range.
FromNanosecond(x) ==
    IF TimestampMin <= x /\ x <= TimestampMax THEN Ok(x) ELSE Err

\* The x_axis_formatter closure every plot_* passes (the five are the same
\* text): from_nanosecond(...).unwrap(), then "{timestamp:#}".
XAxisFormatter(mark) ==
    LET timestamp == FromNanosecond(mark)
    IN  IF timestamp.tag = "Err" THEN Panic
        ELSE Ok(<<"{:#}", timestamp.val>>)

\* The label_formatter closures: they differ in the text before the value
\* and the unit after it. round(Minute) falls back to the unrounded value and
\* is below the granularity of x here.
LabelFormatter(text, unit, point) ==
    LET timestamp == FromNanosecond(point.x)
    IN  IF timestamp.tag = "Err" THEN Panic
        ELSE Ok(<<text, point.y, unit, "On: ", timestamp.val>>)

\* The y_axis_formatter closures: "{:.0}" and a unit.
YAxisFormatter(unit, mark) == <<mark, unit>>

\* The arguments of each plot_generic call. `field` names the closure
\* |record| record.<field> as f64 (an exact widening).
PlotTemperatureArgs ==
    [ title |-> "Temperature (C)", line_color |-> "GREEN",
      label_text |-> "temperature: ", label_unit |-> "C", y_unit |-> "C",
      x_axis_formatter |-> [m \in XViews |-> XAxisFormatter(m)],
      show_y_axis |-> FALSE, field |-> "celsius" ]

PlotPressureArgs ==
    [ title |-> "Pressure (hPa)", line_color |-> "BLUE",
      label_text |-> "pressure: ", label_unit |-> " hPa", y_unit |-> " hPa",
      x_axis_formatter |-> [m \in XViews |-> XAxisFormatter(m)],
      show_y_axis |-> FALSE, field |-> "pressure" ]

\* A variant of plot_co2 that passes true for show_y_axis.
PlotCo2ArgsShowsAxis ==
    [ title |-> "CO2 (ppm)", line_color |-> "WHITE",
      label_text |-> "CO2: ", label_unit |-> " ppm", y_unit |-> " ppm",
      x_axis_formatter |-> [m \in XViews |-> XAxisFormatter(m)],
      show_y_axis |-> TRUE, field |-> "co2_level" ]

PlotCo2Args ==
    [ title |-> "CO2 (ppm)", line_color |-> "WHITE",
      label_text |-> "CO2: ", label_unit |-> " ppm", y_unit |-> " ppm",
      x_axis_formatter |-> [m \in XViews |-> XAxisFormatter(m)],
      show_y_axis |-> FALSE, field |-> "co2_level" ]

PlotHumidityArgs ==
    [ title |-> "Humidity (%)", line_color |-> "CYAN",
      label_text |-> "Humidity: ", label_unit |-> " %", y_unit |-> " %",
      x_axis_formatter |-> [m \in XViews |-> XAxisFormatter(m)],
      show_y_axis |-> FALSE, field |-> "humidity" ]

PlotBatteryArgs ==
    [ title |-> "Battery (%)", line_color |-> "YELLOW",
      label_text |-> "Battery: ", label_unit |-> " %", y_unit |-> " %",
      x_axis_formatter |-> [m \in XViews |-> XAxisFormatter(m)],
      show_y_axis |-> TRUE, field |-> "battery" ]


\* record_point_extractor: |record| record.<field> as f64.
Extract(field, record) == record[field]

\* ui.id().with(PLOT_LINK_AXIS_NAME): every plot_generic call is made on the
\* same Ui (the ScrollArea's), so all five get the same id.
LinkGroupId == <<"scroll_area_ui", PLOT_LINK_AXIS_NAME>>

\* A variant that links no axis.
LinkAxisNone == [x |-> FALSE, y |-> FALSE]

\* .link_axis(link_group_id, Vec2b::new(true, false))
LinkAxis == [x |-> TRUE, y |-> FALSE]

\* .link_cursor(link_group_id, Vec2b::new(true, false))
LinkCursor == [x |-> TRUE, y |-> FALSE]

\* What the pointer does over a chart while it is shown: nothing, a hover,
\* a drag or scroll that moves the x-bounds, or one that moves the y-bounds.
NoInput == [kind |-> "none", v |-> 0]

XInputs ==
    {NoInput, [kind |-> "hover", v |-> 0]}
    \cup {[kind |-> "pan_x", v |-> x] : x \in XViews}

Inputs == XInputs \cup {[kind |-> "zoom_y", v |-> y] : y \in YViews}

\* Bounds after chart c took a new bound v on one axis: c itself, and every
\* chart of its link group when that axis is linked. All five charts are in
\* the one group LinkGroupId.
Linked(bounds, c, v, linked) ==
    [d \in Charts |-> IF d = c \/ linked THEN v ELSE bounds[d]]

\* Plot::new(title)...show(ui, ...): the chart handles its input, formats
\* the ticks of the axes it shows and the tooltip, and draws one line.
\* show_axes(Vec2b::new(show_y_axis, true)): the first component is the x axis.
PlotShow(self, c, args, input, bx, by) ==
    LET nx == IF input.kind = "pan_x"
              THEN Linked(bx, c, input.v, LinkAxis.x) ELSE bx
        ny == IF input.kind = "zoom_y"
              THEN Linked(by, c, input.v, LinkAxis.y) ELSE by
        show_axes == [x |-> args.show_y_axis, y |-> TRUE]
        x_ticks == IF show_axes.x THEN args.x_axis_formatter[nx[c]]
                   ELSE Ok(<<>>)
        y_ticks == IF show_axes.y THEN Ok(YAxisFormatter(args.y_unit, ny[c]))
                   ELSE Ok(<<>>)
        tooltip == IF input.kind = "hover"
                   THEN LabelFormatter(args.label_text, args.label_unit,
                                       [x |-> nx[c], y |-> ny[c]])
                   ELSE Ok(<<>>)
        data == [i \in 1..Len(self) |->
                    [x |-> TimestampMillis(self[i]),
                     y |-> Extract(args.field, self[i])]]
    IN  [ panics |-> x_ticks.tag = "Panic" \/ tooltip.tag = "Panic",
          xr |-> nx, yr |-> ny,
          plot |-> [ drawn |-> TRUE, title |-> args.title,
                     width |-> PLOT_WIDTH, height |-> PLOT_HEIGHT,
                     link_group_id |-> LinkGroupId,
                     link_axis |-> LinkAxis, link_cursor |-> LinkCursor,
                     show_axes |-> show_axes,
                     line_color |-> args.line_color,
                     label_text |-> args.label_text,
                     label_unit |-> args.label_unit,
                     y_unit |-> args.y_unit,
                     x_axis_formatter |-> args.x_axis_formatter,
                     field |-> args.field,
                     x_ticks |-> x_ticks, y_ticks |-> y_ticks,
                     tooltip |-> tooltip, points |-> data ] ]

\* A variant of plot_generic that moves the records into the line
\* (std::mem::take(&mut self.records)) instead of iterating over them.
PlotGenericTakes(self, c, args, input, bx, by) ==
    [show |-> PlotShow(self, c, args, input, bx, by), records |-> <<>>]

\* LinkedAxesDemo::plot_generic(&self, ...): the plot, then the title label
\* painted over it. It takes &self: the records list is only read.
PlotGeneric(self, c, args, input, bx, by) ==
    [show |-> PlotShow(self, c, args, input, bx, by), records |-> self]

---------------------------------------------------------------------------
(* Actions *)

Init ==
    /\ pc = "start"
    /\ store = <<>>
    /\ records = <<>>
    /\ plots = [c \in Charts |-> NoPlot]
    /\ xr = [c \in Charts |-> 17]
    /\ yr = [c \in Charts |-> 0]
    /\ clicked = FALSE
    /\ pointer = FALSE
    /\ cause = "none"
    /\ opens = 0
    /\ lastOpen = "none"
    /\ lastRead = <<>>
    /\ refreshed = FALSE

\* Another process (aranet2sonnerie) appends a row to the store.
StoreAppend ==
    \E kind \in RowKinds :
        /\ Len(store) < MaxRows
        /\ store' = Append(store, MakeRow(kind, Len(store) + 1))
        /\ UNCHANGED <<pc, records, plots, xr, yr, clicked, pointer, cause,
                       opens, lastOpen, lastRead, refreshed>>

\* linked_axes_demo.refresh().unwrap() (or, with unwraps = FALSE, the same
\* call with its result dropped), then go to `next`.
RefreshThen(unwraps, openOk, next) ==
    LET r == Refresh(records, store, openOk)
    IN  /\ records' = r.records
        /\ opens' = r.opens
        /\ lastOpen' = IF openOk THEN "ok" ELSE "failed"
        /\ lastRead' = IF r.outcome = "ok" THEN r.read ELSE lastRead
        /\ refreshed' = (refreshed \/ r.outcome = "ok")
        /\ IF r.outcome = "panic" \/ (r.outcome = "err" /\ unwraps)
           THEN /\ pc' = "panicked"
                /\ cause' = IF r.outcome = "err" THEN "refresh_err"
                            ELSE "malformed_row"
           ELSE /\ pc' = next
                /\ cause' = cause

\* A variant of the startup that drops the result of the initial refresh
\* (let _ = linked_axes_demo.refresh();).
StartupDropsResult(openOk) ==
    /\ pc = "start"
    /\ RefreshThen(FALSE, openOk, "idle")
    /\ UNCHANGED <<store, plots, xr, yr, clicked, pointer>>

\* main before the event loop: LinkedAxesDemo::default(), then the initial
\* refresh, unwrapped.
Startup(openOk) ==
    /\ pc = "start"
    /\ RefreshThen(TRUE, openOk, "idle")
    /\ UNCHANGED <<store, plots, xr, yr, clicked, pointer>>

\* The closure of run_simple_native up to linked_axes_demo.ui(ui): the
\* heading, the button, and the refresh when `refresh` holds.
FrameBegin(refresh, click, openOk) ==
    /\ pc = "idle"
    /\ clicked' = click
    /\ IF refresh
       THEN RefreshThen(TRUE, openOk, UiOrder[1])
       ELSE /\ pc' = UiOrder[1]
            /\ opens' = 0
            /\ UNCHANGED <<records, lastOpen, lastRead, refreshed, cause>>
    /\ UNCHANGED <<store, plots, xr, yr, pointer>>

\* A variant of the frame that refreshes whether or not the button was
\* clicked.
FrameAlwaysRefreshes(click, openOk) == FrameBegin(TRUE, click, openOk)

\* if ui.button("Refresh").clicked() { linked_axes_demo.refresh().unwrap(); }
Frame(click, openOk) == FrameBegin(click, click, openOk)

\* One plot_* call of LinkedAxesDemo::ui. The pointer is over at most one
\* chart in a frame.
Plot(c, args, input) ==
    LET r == PlotGeneric(records, c, args, input, xr, yr)
    IN  /\ pc = c
        /\ input = NoInput \/ ~pointer
        /\ pointer' = (pointer \/ input # NoInput)
        /\ records' = r.records
        /\ xr' = r.show.xr
        /\ yr' = r.show.yr
        /\ IF r.show.panics
           THEN /\ pc' = "panicked"
                /\ cause' = "timestamp_out_of_range"
                /\ plots' = plots
           ELSE /\ pc' = After(c)
                /\ cause' = cause
                /\ plots' = [plots EXCEPT ![c] = r.show.plot]
        /\ UNCHANGED <<store, clicked, opens, lastOpen, lastRead, refreshed>>

PlotTemperature(S) == \E input \in S :
    Plot("temperature", PlotTemperatureArgs, input)

PlotPressure(S) == \E input \in S :
    Plot("pressure", PlotPressureArgs, input)

PlotCo2(S) == \E input \in S : Plot("co2", PlotCo2Args, input)

PlotHumidity(S) == \E input \in S :
    Plot("humidity", PlotHumidityArgs, input)

PlotBattery(S) == \E input \in S : Plot("battery", PlotBatteryArgs, input)

\* The closure returns: eframe paints what the frame drew and waits for the
\* next event.
FrameEnd ==
    /\ pc = "end"
    /\ pc' = "idle"
    /\ plots' = [c \in Charts |-> NoPlot]
    /\ clicked' = FALSE
    /\ pointer' = FALSE
    /\ opens' = 0
    /\ UNCHANGED <<store, records, xr, yr, cause, lastOpen, lastRead,
                   refreshed>>

MainStartup == \E openOk \in BOOLEAN : Startup(openOk)

MainFrame == \E click \in BOOLEAN, openOk \in BOOLEAN : Frame(click, openOk)

\* The program beside the process that fills the store; the pointer hovers
\* and moves the x-bounds.
Next ==
    \/ StoreAppend
    \/ MainStartup
    \/ MainFrame
    \/ PlotTemperature(XInputs)
    \/ PlotPressure(XInputs)
    \/ PlotCo2(XInputs)
    \/ PlotHumidity(XInputs)
    \/ PlotBattery(XInputs)
    \/ FrameEnd

Spec == Init /\ [][Next]_vars

\* The program over a store that holds one well-formed row and does not
\* change; the pointer moves the bounds of both axes.
InitView ==
    /\ pc = "start"
    /\ store = <<MakeRow("good", 1)>>
    /\ records = <<>>
    /\ plots = [c \in Charts |-> NoPlot]
    /\ xr = [c \in Charts |-> 17]
    /\ yr = [c \in Charts |-> 0]
    /\ clicked = FALSE
    /\ pointer = FALSE
    /\ cause = "none"
    /\ opens = 0
    /\ lastOpen = "none"
    /\ lastRead = <<>>
    /\ refreshed = FALSE

NextView ==
    \/ MainStartup
    \/ MainFrame
    \/ PlotTemperature(Inputs)
    \/ PlotPressure(Inputs)
    \/ PlotCo2(Inputs)
    \/ PlotHumidity(Inputs)
    \/ PlotBattery(Inputs)
    \/ FrameEnd

SpecView == InitView /\ [][NextView]_vars

---------------------------------------------------------------------------
(* Vocabulary of the properties, stated without the operators above *)

FramePcs == {"temperature", "pressure", "co2", "humidity", "battery", "end"}

\* The rows of the store a refresh reads.
AranetRows(st) == SelectSeq(st, LAMBDA row : row.key = "aranet4")

\* A stored row whose values at indices 0..4 read as (f32, f32, u32, u32, u32).
WellFormed(row) ==
    /\ Len(row.values) >= 5
    /\ row.values[1].ty = "f32" /\ row.values[2].ty = "f32"
    /\ row.values[3].ty = "u32" /\ row.values[4].ty = "u32"
    /\ row.values[5].ty = "u32"

HasMalformed(rows) == \E i \in 1..Len(rows) : ~WellFormed(rows[i])

\* The record a well-formed row stands for.
RecordOf(row) ==
    [ timestamp_nanos |-> row.timestamp_nanos,
      celsius |-> row.values[1].v, pressure |-> row.values[2].v,
      co2_level |-> row.values[3].v, humidity |-> row.values[4].v,
      battery |-> row.values[5].v ]

Converted(rows) == [i \in 1..Len(rows) |-> RecordOf(rows[i])]

\* The field each chart plots.
FieldOf(c, record) ==
    CASE c = "temperature" -> record.celsius
      [] c = "pressure"    -> record.pressure
      [] c = "co2"         -> record.co2_level
      [] c = "humidity"    -> record.humidity
      [] c = "battery"     -> record.battery

\* A step in which main runs refresh: at startup, or in a frame's beginning.
StartupStep == pc = "start" /\ pc' # "start"
FrameBeginStep == pc = "idle" /\ pc' # "idle"
ProgramStep == pc' # pc

---------------------------------------------------------------------------
(* C1 *)

\* C1: in the event loop a refresh runs in a frame exactly when the Refresh
\* button was clicked in that frame, and every step that is not the beginning
\* of a clicked frame (nor the startup) leaves records as it is, a change of
\* the store included.
C1_RefreshIffClicked ==
    [][ /\ FrameBeginStep => ((opens' > 0) <=> clicked')
        /\ (~StartupStep /\ ~(FrameBeginStep /\ clicked'))
               => records' = records ]_vars

\* A frame without a click is drawing charts from records that no longer
\* match the store.
C1_Witness ==
    /\ pc = "battery"
    /\ ~clicked
    /\ opens = 0
    /\ AranetRows(store) # lastRead
    /\ Len(records) = Len(lastRead)

---------------------------------------------------------------------------
(* C2 *)

\* C2: no step of the program writes to the store; drawing a chart (with or
\* without pan, zoom or hover) leaves records unchanged; records changes only
\* in a step that runs refresh.
C2_OneWayDataFlow ==
    [][ /\ ProgramStep => store' = store
        /\ pc \in FramePcs => records' = records
        /\ records' # records
               => (StartupStep \/ (FrameBeginStep /\ clicked')) ]_vars

\* A frame that refreshed and handled the pointer has drawn all five charts.
C2_Witness ==
    /\ pc = "end"
    /\ clicked
    /\ pointer
    /\ records # <<>>
    /\ \A c \in Charts : plots[c].drawn

---------------------------------------------------------------------------
(* C7 *)

\* C7: every chart drawn holds exactly one point per record, in the order of
\* records, with x the record's timestamp in nanoseconds divided by 1,000,000
\* and y the chart's field of the record; so all drawn charts have the same
\* number of points and the same x values.
C7_OnePointPerRecord ==
    \A c \in Charts :
        plots[c].drawn =>
            /\ Len(plots[c].points) = Len(records)
            /\ \A i \in 1..Len(records) :
                  LET pt == plots[c].points[i]
                  IN  /\ pt.x.whole * 1000000 + pt.x.frac
                             = records[i].timestamp_nanos
                      /\ pt.x.frac \in 0..999999
                      /\ pt.y = FieldOf(c, records[i])
            /\ \A d \in Charts :
                  plots[d].drawn =>
                      /\ Len(plots[d].points) = Len(plots[c].points)
                      /\ \A i \in 1..Len(plots[c].points) :
                            plots[d].points[i].x = plots[c].points[i].x

\* All five charts drawn from two records.
C7_Witness ==
    /\ pc = "end"
    /\ Len(records) >= 2
    /\ \A c \in Charts : plots[c].drawn /\ Len(plots[c].points) >= 2

---------------------------------------------------------------------------
(* C9 *)

\* C9: no frame begins, and no chart is drawn, before a refresh has returned
\* Ok; while none has, main is still starting or has panicked.
C9_NoFrameBeforeRefresh ==
    /\ pc \in FramePcs \cup {"idle"} => refreshed
    /\ ~refreshed =>
          /\ pc \in {"start", "panicked"}
          /\ \A c \in Charts : ~plots[c].drawn
          /\ records = <<>>

\* The initial refresh failed to open the store: main panicked before the
\* event loop.
C9_Witness ==
    /\ pc = "panicked"
    /\ ~refreshed
    /\ cause = "refresh_err"
    /\ lastOpen = "failed"

---------------------------------------------------------------------------
(* C10 *)

\* C10: a refresh that returns Ok leaves records equal to the conversion of
\* the store's "aranet4" rows in store order, whatever records held before;
\* a refresh over the rows the previous one read leaves records as it was,
\* and records is never longer than the store.
C10_RefreshReplaces ==
    [][ ((StartupStep \/ (FrameBeginStep /\ clicked')) /\ pc' # "panicked")
            => /\ records' = Converted(AranetRows(store))
               /\ Len(records') <= Len(store)
               /\ (refreshed /\ AranetRows(store) = lastRead)
                      => records' = records ]_vars

\* A refresh in a frame has replaced a loaded list, over a store that also
\* holds a row of another key.
C10_Witness ==
    /\ pc = "temperature"
    /\ clicked
    /\ refreshed
    /\ Len(records) >= 2
    /\ Len(records) < Len(store)

---------------------------------------------------------------------------
(* C3 *)

\* What two drawn charts share whatever their metric: the size, the link
\* group and its flags, the x-axis formatter and the shown y axis.
SameFrameOfPlot(c, d) ==
    /\ plots[c].width = plots[d].width
    /\ plots[c].height = plots[d].height
    /\ plots[c].link_group_id = plots[d].link_group_id
    /\ plots[c].link_axis = plots[d].link_axis
    /\ plots[c].link_cursor = plots[d].link_cursor
    /\ plots[c].x_axis_formatter = plots[d].x_axis_formatter
    /\ plots[c].show_axes.y = plots[d].show_axes.y

\* C3 as stated: any two drawn charts agree on every parameter other than the
\* colour, the label text and the field, the axis-visibility flag included.
C3_Original ==
    \A c, d \in Charts :
        (plots[c].drawn /\ plots[d].drawn) =>
            /\ SameFrameOfPlot(c, d)
            /\ plots[c].show_axes.x = plots[d].show_axes.x

\* C3, amended: any two drawn charts agree on every parameter other than the
\* colour, the label text, the field and the flag show_y_axis, which is true
\* for the battery chart alone; two different charts differ in colour, title
\* and field.
C3_SharedHelperConfig ==
    \A c, d \in Charts :
        (plots[c].drawn /\ plots[d].drawn) =>
            /\ SameFrameOfPlot(c, d)
            /\ plots[c].show_axes.x = (c = "battery")
            /\ c # d => /\ plots[c].line_color # plots[d].line_color
                        /\ plots[c].title # plots[d].title
                        /\ plots[c].field # plots[d].field

\* The battery chart has been drawn after the four others.
C3_Witness ==
    /\ pc = "end"
    /\ \A c \in Charts : plots[c].drawn
    /\ plots["battery"].show_axes.x
    /\ ~plots["temperature"].show_axes.x

---------------------------------------------------------------------------
(* C4 *)

\* C4: the five charts are in one link group with the x axis and the cursor
\* linked and the y axis not: whatever was panned or zoomed, all five hold the
\* same x-bounds, and a step that changes the y-bounds of a chart changes
\* those of no other chart.
C4_LinkedAxes ==
    /\ [](/\ \A c, d \in Charts : xr[c] = xr[d]
          /\ \A c \in Charts :
                plots[c].drawn =>
                    /\ plots[c].link_axis = [x |-> TRUE, y |-> FALSE]
                    /\ plots[c].link_cursor = [x |-> TRUE, y |-> FALSE]
                    /\ \A d \in Charts :
                          plots[d].drawn =>
                              plots[d].link_group_id = plots[c].link_group_id)
    /\ [][\A c \in Charts :
              yr'[c] # yr[c] => \A d \in Charts \ {c} : yr'[d] = yr[d]]_vars

\* The x-bounds were moved and two charts hold different y-bounds.
C4_Witness ==
    /\ pc = "end"
    /\ xr["temperature"] = TimestampMax
    /\ xr["battery"] = TimestampMax
    /\ yr["co2"] = 1
    /\ yr["battery"] = 0

---------------------------------------------------------------------------
(* C5 *)

RefreshStep == StartupStep \/ (FrameBeginStep /\ clicked')

\* C5 as stated: the program panics on a malformed stored row only.
C5_Original == pc = "panicked" => cause = "malformed_row"

\* C5, amended: the program fails by panicking only, in three cases. A
\* refresh panics inside the row conversion when the store opened and holds a
\* malformed "aranet4" row; refresh returns Err, which main unwraps, exactly
\* when the store failed to open (the conversion never returns Err); a chart
\* panics when the x-bound it formats is outside the range of a timestamp.
\* A refresh over a store that opens and holds no malformed row does not panic.
C5_PanicCases ==
    [][ /\ (pc # "panicked" /\ pc' = "panicked") =>
               \/ /\ cause' = "malformed_row"
                  /\ RefreshStep
                  /\ lastOpen' = "ok"
                  /\ HasMalformed(AranetRows(store))
               \/ /\ cause' = "refresh_err"
                  /\ RefreshStep
                  /\ lastOpen' = "failed"
               \/ /\ cause' = "timestamp_out_of_range"
                  /\ pc \in Charts
                  /\ ~(xr'[pc] \in TimestampMin..TimestampMax)
        /\ RefreshStep =>
               ((pc' = "panicked") <=>
                    (lastOpen' = "failed" \/ HasMalformed(AranetRows(store))))
      ]_vars

\* A chart panicked on an x-bound no timestamp represents, over a store that
\* opened and holds no malformed row.
C5_Witness ==
    /\ pc = "panicked"
    /\ cause = "timestamp_out_of_range"
    /\ lastOpen = "ok"
    /\ ~HasMalformed(AranetRows(store))

---------------------------------------------------------------------------
(* C6 *)

\* C6: a refresh opens the store at most once; whenever a frame can draw,
\* records is the conversion of all the rows of one read of the store; a
\* refresh that fails leaves records as it was and ends the program, which
\* never runs again.
C6_AllOrNothing ==
    /\ [](/\ opens <= 1
          /\ pc \in FramePcs \cup {"idle"} =>
                /\ ~HasMalformed(lastRead)
                /\ records = Converted(lastRead))
    /\ [][ /\ (RefreshStep /\ pc' # "panicked")
                  => lastRead' = AranetRows(store)
           /\ (RefreshStep /\ (lastOpen' = "failed"
                                  \/ HasMalformed(AranetRows(store))))
                  => (records' = records /\ pc' = "panicked")
           /\ pc = "panicked" => pc' = "panicked" ]_vars

\* A refresh in the event loop failed on a malformed row that follows a
\* well-formed one: the list loaded before is still there.
C6_Witness ==
    /\ pc = "panicked"
    /\ cause = "malformed_row"
    /\ refreshed
    /\ records # <<>>
    /\ Len(AranetRows(store)) > Len(records)
    /\ WellFormed(AranetRows(store)[1])

---------------------------------------------------------------------------
(* C8 *)

\* The place of each chart in a frame.
Pos(c) ==
    CASE c = "temperature" -> 1
      [] c = "pressure"    -> 2
      [] c = "co2"         -> 3
      [] c = "humidity"    -> 4
      [] c = "battery"     -> 5

\* C8: in a frame the refresh of a click is over before the first chart is
\* drawn, so every chart of that frame shows the rows just read; the charts
\* are drawn in the order temperature, pressure, CO2, humidity, battery, all
\* from the one records list.
C8_FrameOrder ==
    /\ [](/\ pc \in Charts =>
                \A c \in Charts : plots[c].drawn <=> Pos(c) < Pos(pc)
          /\ pc = "end" => \A c \in Charts : plots[c].drawn
          /\ pc \in {"start", "idle"} => \A c \in Charts : ~plots[c].drawn
          /\ pc \in FramePcs =>
                \A c \in Charts :
                    plots[c].drawn =>
                        /\ Len(plots[c].points) = Len(records)
                        /\ \A i \in 1..Len(records) :
                              plots[c].points[i].y = FieldOf(c, records[i])
          /\ (pc \in FramePcs /\ clicked) => records = Converted(lastRead))
    /\ [][(FrameBeginStep /\ clicked' /\ pc' # "panicked") =>
              /\ pc' = "temperature"
              /\ \A c \in Charts : ~plots'[c].drawn
              /\ lastRead' = AranetRows(store)
              /\ records' = Converted(AranetRows(store))]_vars

\* The frame of a click has drawn all five charts from rows that were not in
\* the list before.
C8_Witness ==
    /\ pc = "end"
    /\ clicked
    /\ opens = 1
    /\ Len(records) >= 1
    /\ \A c \in Charts :
          plots[c].drawn /\ Len(plots[c].points) = Len(records)

=============================================================================
